---- MODULE Spec2Model ----
(***************************************************************************)
(* A model of the fragment rendering of clevabit/sqrl: the Sqlizer         *)
(* fragments of expr.go (Expr, Eq/NotEq, Lt/LtOrEq/Gt/GtOrEq, And/Or,      *)
(* Between, ConcatExpr, Fn, Alias, lateral join) and the SelectBuilder.    *)
(*                                                                         *)
(* SQL text is a sequence of one-character strings, so that the scans of   *)
(* the code (placeholder marks, format verbs) are scans of the model.      *)
(* ToSql is set-valued: ranging over a Go map visits the keys in an order  *)
(* the runtime picks, so a fragment has a set of possible renderings.      *)
(* An argument list is modelled by its elements and their order (a nil     *)
(* slice and an empty slice are the same list).                            *)
(***************************************************************************)
EXTENDS Naturals, Sequences, FiniteSets, TLC

VARIABLES frag,      \* the fragment the caller holds, or NoFrag
          out,       \* the result of the last ToSql call, or NoRes
          prev,      \* the result of the ToSql call before it, or NoRes
          builders,  \* the SelectBuilder objects, by reference
          arrays     \* the backing arrays of the slices, by reference

vars == <<frag, out, prev, builders, arrays>>

----------------------------------------------------------------------------
(* Bounds of the model. *)

MaxLen == 2        \* longest Expr template, in characters
MaxArgs == 2       \* most arguments of an Expr
MaxKeys == 2       \* most entries of a predicate map
MaxList == 2       \* longest list value of a predicate map entry
MaxParts == 3      \* most children of And/Or, Fn, ConcatExpr
MaxDepth == 2      \* deepest nesting of fragments built by the constructors
MaxCalls == 3      \* most clause-adding calls on a SelectBuilder

----------------------------------------------------------------------------
(* Text. *)

Str1(c) == <<c>>

RECURSIVE Join(_, _)
\* strings.Join(parts, sep)
Join(parts, sep) ==
    IF Len(parts) = 0 THEN <<>>
    ELSE IF Len(parts) = 1 THEN parts[1]
    ELSE parts[1] \o sep \o Join(Tail(parts), sep)

RECURSIVE Flatten(_)
\* the concatenation of a sequence of sequences
Flatten(ss) == IF Len(ss) = 0 THEN <<>> ELSE ss[1] \o Flatten(Tail(ss))

\* the positions of the generic placeholder marks of a text, and their number
Marks(t) == {i \in DOMAIN t : t[i] = "?"}
CountMarks(t) == Cardinality(Marks(t))

Digits == <<"0", "1", "2", "3", "4", "5", "6", "7", "8", "9">>

RECURSIVE Itoa(_)
\* the decimal form of a natural number (%d, strconv.FormatUint)
Itoa(n) == IF n < 10 THEN <<Digits[n + 1]>>
           ELSE Itoa(n \div 10) \o <<Digits[(n % 10) + 1]>>

RECURSIVE Placeholders(_)
\* Placeholders(count): count marks joined by commas
Placeholders(count) ==
    IF count < 1 THEN <<>>
    ELSE IF count = 1 THEN <<"?">>
    ELSE <<"?", ",">> \o Placeholders(count - 1)

FlagChars == {"#", "0", "+", "-", " "}
DigitChars == {Digits[i] : i \in DOMAIN Digits}

RECURSIVE SkipWhile(_, _, _)
\* the first position at or after i of t whose character is not in cs
SkipWhile(t, i, cs) ==
    IF i <= Len(t) /\ t[i] \in cs THEN SkipWhile(t, i + 1, cs) ELSE i

RECURSIVE FprintfFrom(_, _)
\* fmt.Fprintf(buf, format) with no operands, from position i of format:
\* text up to a '%' is copied; after a '%' come flags and a width, then the
\* verb: "%%" writes "%", any other verb has no operand and writes
\* "%!v(MISSING)", and a format that ends there writes "%!(NOVERB)".
\* (The characters '.', '*' and '[' do not occur in the texts of the model.)
FprintfFrom(format, i) ==
    IF i > Len(format) THEN <<>>
    ELSE IF format[i] # "%" THEN <<format[i]>> \o FprintfFrom(format, i + 1)
    ELSE LET v == SkipWhile(format, SkipWhile(format, i + 1, FlagChars), DigitChars)
         IN  IF v > Len(format)
             THEN <<"%", "!", "(", "N", "O", "V", "E", "R", "B", ")">>
             ELSE IF format[v] = "%"
             THEN <<"%">> \o FprintfFrom(format, v + 1)
             ELSE <<"%", "!", format[v], "(", "M", "I", "S", "S", "I", "N", "G", ")">>
                  \o FprintfFrom(format, v + 1)

Fprintf(format) == FprintfFrom(format, 1)

----------------------------------------------------------------------------
(* Values (interface{}) and results. *)

NoFrag == [kind |-> "none"]
NoRes == [sql |-> <<>>, args |-> <<>>, err |-> "none"]

Nil == [kind |-> "nil"]
Scalar(n) == [kind |-> "val", v |-> n]
Bytes == [kind |-> "bytes"]                         \* a []byte: a driver value
List(elems) == [kind |-> "list", elems |-> elems]   \* an array or a slice
\* a driver.Valuer whose Value() returns (value, verr)
Valuer(value, verr) == [kind |-> "valuer", value |-> value, verr |-> verr]
String(s) == [kind |-> "string", s |-> s]
Struct == [kind |-> "struct"]                       \* a struct{}{}
\* a value whose type is depth levels of slice or array over the element
\* type base ("int", "string", "struct" or "interface"); elems are its
\* elements, values of depth - 1 levels themselves where depth is more than one
Slice(base, depth, elems) ==
    [kind |-> "slice", base |-> base, depth |-> depth, elems |-> elems]

SqlizerKinds == {"expr", "Eq", "NotEq", "Lt", "LtOrEq", "Gt", "GtOrEq", "And", "Or",
                 "Between", "concatExpr", "fn", "aliasExpr", "lateralExpr",
                 "SelectBuilder", "part", "unionPart", "array", "any"}

IsSqlizer(v) == v.kind \in SqlizerKinds

Result(sql, args, err) == [sql |-> sql, args |-> args, err |-> err]
Ok(sql, args) == Result(sql, args, "nil")

\* the error values of the code
ErrValuer == "Value() failed"
ErrNull == "cannot use null with less than or greater than operators"
ErrList == "cannot use array or slice with less than or greater than operators"
ErrSegment == "is not a string or Sqlizer"
ErrNoColumns == "select statements must have at least one result column"
ErrUnion == "expected string or SelectBuilder"
ErrTypeMismatch == "TypeMismatch"

----------------------------------------------------------------------------
(* Fragments: the constructors of expr.go. *)

Expr(sql, args) == [kind |-> "expr", sql |-> sql, args |-> args]
Alias(expr, alias) == [kind |-> "aliasExpr", expr |-> expr, alias |-> alias]
lateralJoin(expr, alias) == [kind |-> "lateralExpr", expr |-> expr, alias |-> alias]
\* a predicate map: kind is Eq, NotEq, Lt, LtOrEq, Gt or GtOrEq, m the Go map
Pred(kind, m) == [kind |-> kind, m |-> m]
\* And{...} and Or{...}
Conj(kind, parts) == [kind |-> kind, parts |-> parts]
Between(field, left, right) ==
    [kind |-> "Between", field |-> field, left |-> left, right |-> right]
ConcatExpr(parts) == [kind |-> "concatExpr", parts |-> parts]
Fn(name, args) == [kind |-> "fn", name |-> name, fargs |-> args]
Array(arr) == [kind |-> "array", value |-> arr]
\* Any(column, array)
AnyExpr(column, array) == [kind |-> "any", column |-> column, args |-> Array(array)]

RECURSIVE ToSql(_)

\* hasSqlizer(args): some argument is a Sqlizer
hasSqlizer(args) == \E i \in DOMAIN args : IsSqlizer(args[i])

ScanStart == [buf |-> <<>>, args |-> <<>>, err |-> "nil", i |-> 0]

\* the callback appending the fragment argument itself, not its arguments
exprReplaceAppendingFragment(e, st, i) ==
    IF i > Len(e.args) THEN {[st EXCEPT !.buf = Append(@, "?")]}
    ELSE IF IsSqlizer(e.args[i])
    THEN { IF r.err # "nil" THEN [st EXCEPT !.err = r.err]
           ELSE [st EXCEPT !.args = Append(@, e.args[i]), !.buf = @ \o Fprintf(r.sql)]
           : r \in ToSql(e.args[i]) }
    ELSE {[st EXCEPT !.args = Append(@, e.args[i]), !.buf = Append(@, "?")]}

\* the callback of expr.ToSql, at the i-th mark
exprReplace(e, st, i) ==
    IF i > Len(e.args) THEN {[st EXCEPT !.buf = Append(@, "?")]}
    ELSE IF IsSqlizer(e.args[i])
    THEN { IF r.err # "nil" THEN [st EXCEPT !.err = r.err]
           ELSE [st EXCEPT !.args = @ \o r.args, !.buf = @ \o Fprintf(r.sql)]
           : r \in ToSql(e.args[i]) }
    ELSE {[st EXCEPT !.args = Append(@, e.args[i]), !.buf = Append(@, "?")]}

\* the Dollar format's callback: "$" and the number of the mark
dollarReplace(st, i) == {[st EXCEPT !.buf = @ \o <<"$">> \o Itoa(i)]}

\* the callback handed to replacePlaceholders: the closure of expr.ToSql over
\* e, or the one of the Dollar format
ExprCallback(e) == [kind |-> "expr", e |-> e]
DollarCallback == [kind |-> "dollar"]

\* the callback f called at the i-th mark
replace(f, st, i) ==
    IF f.kind = "dollar" THEN dollarReplace(st, i) ELSE exprReplace(f.e, st, i)

\* the positions of the marks of a text, from left to right
MarkSeq(t) ==
    CHOOSE at \in { [k \in 1..Cardinality(ms) |->
                       CHOOSE p \in ms : Cardinality({q \in ms : q < p}) = k - 1]
                    : ms \in {Marks(t)} } : TRUE

\* replacePlaceholders(sql, f): the text is scanned left to right; the
\* characters that are no marks are copied to the buffer and the i-th mark
\* (from 1) is handed to f, which writes to the buffer or fails; the
\* scan stops at the first failure. st carries the buffer and what the
\* callback captures; scan[k] is the scan up to the (k+1)-th mark.
replacePlaceholders(sql, f, st0) ==
    LET scanOver(at) ==
            LET upTo(k) == IF k > Len(at) THEN Len(sql) ELSE at[k] - 1
                scan[k \in 0..Len(at)] ==
                    IF k = 0
                    THEN {[st0 EXCEPT !.i = 0, !.buf = @ \o SubSeq(sql, 1, upTo(1))]}
                    ELSE UNION { IF st.err # "nil" THEN {st}
                                 ELSE { IF s.err # "nil" THEN s
                                        ELSE [s EXCEPT !.buf = @ \o SubSeq(sql, at[k] + 1, upTo(k + 1))]
                                        : s \in replace(f, [st EXCEPT !.i = @ + 1], st.i + 1) }
                                 : st \in scan[k - 1] }
            IN  scan[Len(at)]
    IN  UNION { scanOver(at) : at \in {MarkSeq(sql)} }

\* expr.ToSql past the fast path: the expansion of the template
exprExpand(e) ==
    { IF st.err # "nil" THEN Result(<<>>, <<>>, st.err) ELSE Ok(st.buf, st.args)
      : st \in replacePlaceholders(e.sql, ExprCallback(e), ScanStart) }

\* expr.ToSql
expr_ToSql(e) ==
    IF ~hasSqlizer(e.args) THEN {Ok(e.sql, e.args)} ELSE exprExpand(e)

\* aliasExpr.ToSql: "(%s) AS %s"
aliasExpr_ToSql(e) ==
    { IF r.err = "nil"
      THEN [r EXCEPT !.sql = <<"(">> \o r.sql \o <<")", " ", "A", "S", " ">> \o e.alias]
      ELSE r
      : r \in ToSql(e.expr) }

\* lateralExpr.ToSql: "LATERAL (%s) AS %s"
lateralExpr_ToSql(e) ==
    { IF r.err = "nil"
      THEN [r EXCEPT !.sql = <<"L", "A", "T", "E", "R", "A", "L", " ", "(">> \o r.sql
                             \o <<")", " ", "A", "S", " ">> \o e.alias]
      ELSE r
      : r \in ToSql(e.expr) }

\* the orders in which a range over a Go map may visit its keys
Perms(S) == {s \in [1..Cardinality(S) -> S] : \A i, j \in DOMAIN s : i # j => s[i] # s[j]}
mapRange(m) == Perms(DOMAIN m)

\* driver.IsValue(val)
driverIsValue(val) == val.kind \in {"nil", "bytes", "val"}

\* isListType(val)
isListType(val) == IF driverIsValue(val) THEN FALSE ELSE val.kind = "list"

\* the type switch on driver.Valuer left out: the value is used as it is
valuerKept(v) == v

\* the value the type switch on driver.Valuer leaves in val (Value() succeeded)
valuerValue(v) == IF v.kind = "valuer" THEN v.value ELSE v

sAND == <<" ", "A", "N", "D", " ">>
sOR == <<" ", "O", "R", " ">>

\* one pass of the loop body of Eq.toSql, for key; acc holds exprs, args, err
EqEntry(eq, useNotOpr, acc, key) ==
    LET equalOpr == IF useNotOpr THEN <<"<", ">">> ELSE <<"=">>
        inOpr == IF useNotOpr THEN <<"N", "O", "T", " ", "I", "N">> ELSE <<"I", "N">>
        nullOpr == IF useNotOpr THEN <<"I", "S", " ", "N", "O", "T">> ELSE <<"I", "S">>
        inEmptyExpr == IF useNotOpr THEN <<"(", "1", "=", "1", ")">>
                       ELSE <<"(", "1", "=", "0", ")">>
        v == eq.m[key]
        failed == v.kind = "valuer" /\ v.verr # "nil"
        val == valuerValue(v)
    IN  IF acc.err # "nil" THEN acc
        ELSE IF failed THEN [acc EXCEPT !.err = v.verr]
        ELSE IF val = Nil
        THEN [acc EXCEPT !.exprs = Append(@, key \o <<" ">> \o nullOpr
                                             \o <<" ", "N", "U", "L", "L">>)]
        ELSE IF isListType(val)
        THEN IF Len(val.elems) = 0
             THEN [acc EXCEPT !.exprs = Append(@, inEmptyExpr)]
             ELSE [acc EXCEPT !.args = @ \o val.elems,
                              !.exprs = Append(@, key \o <<" ">> \o inOpr \o <<" ", "(">>
                                           \o Placeholders(Len(val.elems)) \o <<")">>)]
        ELSE [acc EXCEPT !.exprs = Append(@, key \o <<" ">> \o equalOpr \o <<" ", "?">>),
                         !.args = Append(@, val)]

PredStart == [exprs |-> <<>>, args |-> <<>>, err |-> "nil"]

\* Eq.toSql(useNotOpr) when the range visits the keys in this order
EqInOrder(eq, useNotOpr, order) ==
    LET loop[n \in 0..Len(order)] ==
            IF n = 0 THEN PredStart ELSE EqEntry(eq, useNotOpr, loop[n - 1], order[n])
        acc == loop[Len(order)]
    IN  IF acc.err # "nil" THEN Result(<<>>, acc.args, acc.err)
        ELSE Ok(Join(acc.exprs, sAND), acc.args)

\* Eq.toSql(useNotOpr)
Eq_toSql(eq, useNotOpr) == {EqInOrder(eq, useNotOpr, order) : order \in mapRange(eq.m)}

\* the loop body of Lt.toSql without its check of isListType
LtEntryTakingLists(lt, opr, acc, key) ==
    LET v == lt.m[key]
        failed == v.kind = "valuer" /\ v.verr # "nil"
        val == valuerValue(v)
    IN  IF acc.err # "nil" THEN acc
        ELSE IF failed THEN [acc EXCEPT !.err = v.verr]
        ELSE IF val = Nil THEN [acc EXCEPT !.err = ErrNull]
        ELSE [acc EXCEPT !.exprs = Append(@, key \o <<" ">> \o opr \o <<" ", "?">>),
                         !.args = Append(@, val)]

\* one pass of the loop body of Lt.toSql, for key
LtEntry(lt, opr, acc, key) ==
    LET v == lt.m[key]
        failed == v.kind = "valuer" /\ v.verr # "nil"
        val == valuerValue(v)
    IN  IF acc.err # "nil" THEN acc
        ELSE IF failed THEN [acc EXCEPT !.err = v.verr]
        ELSE IF val = Nil THEN [acc EXCEPT !.err = ErrNull]
        ELSE IF isListType(val) THEN [acc EXCEPT !.err = ErrList]
        ELSE [acc EXCEPT !.exprs = Append(@, key \o <<" ">> \o opr \o <<" ", "?">>),
                         !.args = Append(@, val)]

\* Lt.toSql(opposite, orEq) when the range visits the keys in this order
LtInOrder(lt, opposite, orEq, order) ==
    LET opr == (IF opposite THEN <<">">> ELSE <<"<">>) \o (IF orEq THEN <<"=">> ELSE <<>>)
        loop[n \in 0..Len(order)] ==
            IF n = 0 THEN PredStart ELSE LtEntry(lt, opr, loop[n - 1], order[n])
        acc == loop[Len(order)]
    IN  IF acc.err # "nil" THEN Result(<<>>, acc.args, acc.err)
        ELSE Ok(Join(acc.exprs, sAND), acc.args)

\* Lt.toSql(opposite, orEq)
Lt_toSql(lt, opposite, orEq) ==
    {LtInOrder(lt, opposite, orEq, order) : order \in mapRange(lt.m)}

\* conj.join keeping the arguments of a child whose text is empty
conjStepKeepingArgs(acc, r) ==
    IF r.err # "nil" THEN [acc EXCEPT !.err = r.err]
    ELSE IF r.sql # <<>>
    THEN [acc EXCEPT !.exprs = Append(@, r.sql), !.args = @ \o r.args]
    ELSE [acc EXCEPT !.args = @ \o r.args]

\* one pass of the loop of conj.join: acc holds sqlParts, args, err
conjStep(acc, r) ==
    IF r.err # "nil" THEN [acc EXCEPT !.err = r.err]
    ELSE IF r.sql # <<>>
    THEN [acc EXCEPT !.exprs = Append(@, r.sql), !.args = @ \o r.args]
    ELSE acc

\* conj.join(sep)
conj_join(c, sep) ==
    LET loop[n \in 0..Len(c)] ==
            IF n = 0 THEN {PredStart}
            ELSE UNION { IF acc.err # "nil" THEN {acc}
                         ELSE {conjStep(acc, r) : r \in ToSql(c[n])}
                         : acc \in loop[n - 1] }
    IN  { IF acc.err # "nil" THEN Result(<<>>, <<>>, acc.err)
          ELSE IF Len(acc.exprs) > 0
          THEN Ok(<<"(">> \o Join(acc.exprs, sep) \o <<")">>, acc.args)
          ELSE Ok(<<>>, acc.args)
          : acc \in loop[Len(c)] }

sBETWEEN == <<" ", "B", "E", "T", "W", "E", "E", "N", " ", "?", " ", "A", "N", "D", " ", "?">>

\* Between.ToSql
Between_ToSql(between) ==
    {Ok(between.field \o sBETWEEN, <<between.left, between.right>>)}

ResStart == [sql |-> <<>>, args |-> <<>>, err |-> "nil"]

\* concatExpr.ToSql
concatExpr_ToSql(ce) ==
    LET loop[n \in 0..Len(ce)] ==
            IF n = 0 THEN {ResStart}
            ELSE UNION { IF acc.err # "nil" THEN {acc}
                         ELSE IF ce[n].kind = "string"
                         THEN {[acc EXCEPT !.sql = @ \o ce[n].s]}
                         ELSE IF IsSqlizer(ce[n])
                         THEN { IF r.err # "nil" THEN Result(<<>>, <<>>, r.err)
                                ELSE [acc EXCEPT !.sql = @ \o r.sql, !.args = @ \o r.args]
                                : r \in ToSql(ce[n]) }
                         ELSE {Result(<<>>, <<>>, ErrSegment)}
                         : acc \in loop[n - 1] }
    IN  loop[Len(ce)]

\* fn.ToSql, the arguments of each argument fragment put before those of
\* the fragments rendered so far
fn_ToSqlPrependingArgs(fn) ==
    LET loop[a \in 0..Len(fn.fargs)] ==
            IF a = 0 THEN {Ok(fn.name \o <<"(">>, <<>>)}
            ELSE UNION { IF acc.err # "nil" THEN {acc}
                         ELSE LET sep == IF a > 1 THEN <<",", " ">> ELSE <<>>
                              IN  { IF r.err # "nil"
                                    THEN [acc EXCEPT !.sql = @ \o sep, !.err = r.err]
                                    ELSE [acc EXCEPT !.sql = @ \o sep \o r.sql,
                                                     !.args = r.args \o @]
                                    : r \in ToSql(fn.fargs[a]) }
                         : acc \in loop[a - 1] }
    IN  { IF acc.err # "nil" THEN acc ELSE [acc EXCEPT !.sql = @ \o <<")">>]
          : acc \in loop[Len(fn.fargs)] }

\* fn.ToSql
fn_ToSql(fn) ==
    LET loop[a \in 0..Len(fn.fargs)] ==
            IF a = 0 THEN {Ok(fn.name \o <<"(">>, <<>>)}
            ELSE UNION { IF acc.err # "nil" THEN {acc}
                         ELSE LET sep == IF a > 1 THEN <<",", " ">> ELSE <<>>
                              IN  { IF r.err # "nil"
                                    THEN [acc EXCEPT !.sql = @ \o sep, !.err = r.err]
                                    ELSE [acc EXCEPT !.sql = @ \o sep \o r.sql,
                                                     !.args = @ \o r.args]
                                    : r \in ToSql(fn.fargs[a]) }
                         : acc \in loop[a - 1] }
    IN  { IF acc.err # "nil" THEN acc ELSE [acc EXCEPT !.sql = @ \o <<")">>]
          : acc \in loop[Len(fn.fargs)] }

----------------------------------------------------------------------------
(* The structured-array literal and the membership wrapper. *)

sANY == <<" ", "=", " ", "A", "N", "Y", "(">>

RECURSIVE quoted(_)
\* the characters of a string element, backslash and double quote escaped
\* with a preceding backslash
quoted(t) ==
    IF Len(t) = 0 THEN <<>>
    ELSE (IF Head(t) \in {"\"", "\\"} THEN <<"\\", Head(t)>> ELSE <<Head(t)>>)
         \o quoted(Tail(t))

RECURSIVE marshalArray(_)
\* the literal of a sequence: its elements in braces, separated by commas;
\* a nested sequence by the same rule, a string in double quotes, a number
\* in its decimal form
marshalArray(v) ==
    CASE v.kind = "slice" ->
            <<"{">> \o Join([i \in DOMAIN v.elems |-> marshalArray(v.elems[i])], <<",">>)
            \o <<"}">>
      [] v.kind = "string" -> <<"\"">> \o quoted(v.s) \o <<"\"">>
      [] OTHER -> Itoa(v.v)

\* the type of src is a sequence, at every level, of strings or of numbers
checkArrayType(src) == src.kind = "slice" /\ src.base \in {"int", "string"}

\* array.ToSql: the literal as the single argument of one mark
array_ToSql(a) ==
    IF ~checkArrayType(a.value) THEN {Result(<<>>, <<>>, ErrTypeMismatch)}
    ELSE {Ok(<<"?">>, <<String(marshalArray(a.value))>>)}

\* any.ToSql, the text and the arguments of the array returned with its error
any_ToSqlReturningAll(any) ==
    { Result(any.column \o sANY \o r.sql \o <<")">>, r.args, r.err)
      : r \in ToSql(any.args) }

\* any.ToSql
any_ToSql(any) ==
    { IF r.err # "nil" THEN Result(<<>>, <<>>, r.err)
      ELSE Ok(any.column \o sANY \o r.sql \o <<")">>, r.args)
      : r \in ToSql(any.args) }

----------------------------------------------------------------------------
(* The SelectBuilder. A *SelectBuilder is a reference into builders.        *)

sSELECT == <<"S", "E", "L", "E", "C", "T", " ">>
sDISTINCT == <<"D", "I", "S", "T", "I", "N", "C", "T", " ">>
sFROM == <<" ", "F", "R", "O", "M", " ">>
sWHERE == <<" ", "W", "H", "E", "R", "E", " ">>
sUNION == <<" ", "U", "N", "I", "O", "N", " ">>
sUNIONALL == <<" ", "U", "N", "I", "O", "N", " ", "A", "L", "L", " ">>
sGROUPBY == <<" ", "G", "R", "O", "U", "P", " ", "B", "Y", " ">>
sHAVING == <<" ", "H", "A", "V", "I", "N", "G", " ">>
sORDERBY == <<" ", "O", "R", "D", "E", "R", " ", "B", "Y", " ">>
sLIMIT == <<" ", "L", "I", "M", "I", "T", " ">>
sOFFSET == <<" ", "O", "F", "F", "S", "E", "T", " ">>

\* NewSelectBuilder(b): every clause slot empty
NewSelectBuilder(format) ==
    [ placeholderFormat |-> format,
      prefixes |-> <<>>, distinct |-> FALSE, options |-> <<>>, columns |-> <<>>,
      fromParts |-> <<>>, joins |-> <<>>, whereParts |-> <<>>, groupBys |-> <<>>,
      havingParts |-> <<>>, orderBys |-> <<>>, union |-> <<>>, unionAll |-> <<>>,
      limit |-> 0, limitValid |-> FALSE, offset |-> 0, offsetValid |-> FALSE,
      suffixes |-> <<>> ]

\* a *SelectBuilder, and a SelectBuilder passed by value (a copy)
Ref(id) == [kind |-> "SelectBuilder", ref |-> id]
Copy(b) == [kind |-> "SelectBuilderValue", b |-> b]

\* newPart(pred, args...) and newWherePart(pred, args...)
newPart(pred, args) == [kind |-> "part", pred |-> pred, args |-> args]
newWherePart(pred, args) == [kind |-> "part", pred |-> pred, args |-> args]
\* newUnionPart(pred, args...)
newUnionPart(pred, args) == [kind |-> "unionPart", pred |-> pred, args |-> args]

ErrPart == "expected string or Sqlizer"

\* part.ToSql: nothing for nil, the fragment's rendering for a Sqlizer, the
\* text and the arguments as given for a string
part_ToSql(p) ==
    CASE p.pred.kind = "nil" -> {Ok(<<>>, <<>>)}
      [] p.pred.kind = "string" -> {Ok(p.pred.s, p.args)}
      [] IsSqlizer(p.pred) -> ToSql(p.pred)
      [] OTHER -> {Result(<<>>, <<>>, ErrPart)}

\* appendToSql(parts, w, sep, args): the parts rendered in sequence, their
\* texts written with sep between them, their arguments appended in order;
\* the first failure ends it. acc holds the text written, the arguments, err.
appendToSql(parts, acc0, sep) ==
    LET loop[n \in 0..Len(parts)] ==
            IF n = 0 THEN {acc0}
            ELSE UNION { IF acc.err # "nil" THEN {acc}
                         ELSE { IF r.err # "nil" THEN [acc EXCEPT !.err = r.err]
                                ELSE [acc EXCEPT
                                        !.sql = @ \o (IF n > 1 THEN sep ELSE <<>>) \o r.sql,
                                        !.args = @ \o r.args]
                                : r \in ToSql(parts[n]) }
                         : acc \in loop[n - 1] }
    IN  loop[Len(parts)]

\* exprs.AppendToSql(w, sep, args): the text and the arguments of each expr as
\* they were given (an expr of a prefix or a suffix is not rendered)
exprs_AppendToSql(es, acc, sep) ==
    [acc EXCEPT !.sql = @ \o Join([i \in DOMAIN es |-> es[i].sql], sep),
                !.args = @ \o Flatten([i \in DOMAIN es |-> es[i].args])]

\* PlaceholderFormat.ReplacePlaceholders(sql): Question leaves the text as it
\* is, Dollar replaces the k-th mark by "$k"
ReplacePlaceholders(format, sql) ==
    IF format = "Question" THEN sql
    ELSE (CHOOSE st \in replacePlaceholders(sql, DollarCallback, ScanStart) : TRUE).buf

\* a clause of SelectBuilder.ToSql made of parts: nothing when there are
\* none, else the head and the parts with sep between them
Clause(parts, head, sep) == [parts |-> parts, head |-> head, sep |-> sep, text |-> <<>>]

\* a clause of SelectBuilder.ToSql without parts: the text when cond holds
Write(cond, text) ==
    [parts |-> <<>>, head |-> <<>>, sep |-> <<>>, text |-> IF cond THEN text ELSE <<>>]

\* the clauses with the unions rendered before the WHERE clause
ClausesUnionFirst(b) ==
    << Clause(b.columns, <<>>, <<",", " ">>),
       Clause(b.fromParts, sFROM, <<",", " ">>),
       Clause(b.joins, <<" ">>, <<" ">>),
       Clause(b.union, sUNION, sUNION),
       Clause(b.unionAll, sUNIONALL, sUNIONALL),
       Clause(b.whereParts, sWHERE, sAND),
       Write(Len(b.groupBys) > 0, sGROUPBY \o Join(b.groupBys, <<",", " ">>)),
       Clause(b.havingParts, sHAVING, sAND),
       Write(Len(b.orderBys) > 0, sORDERBY \o Join(b.orderBys, <<",", " ">>)),
       Write(b.limitValid /\ b.limit # 0, sLIMIT \o Itoa(b.limit)),
       Write(b.offsetValid /\ b.offset # 0, sOFFSET \o Itoa(b.offset)) >>

\* the clauses of SelectBuilder.ToSql after the SELECT keyword, in the order
\* of the code
Clauses(b) ==
    << Clause(b.columns, <<>>, <<",", " ">>),
       Clause(b.fromParts, sFROM, <<",", " ">>),
       Clause(b.joins, <<" ">>, <<" ">>),
       Clause(b.whereParts, sWHERE, sAND),
       Clause(b.union, sUNION, sUNION),
       Clause(b.unionAll, sUNIONALL, sUNIONALL),
       Write(Len(b.groupBys) > 0, sGROUPBY \o Join(b.groupBys, <<",", " ">>)),
       Clause(b.havingParts, sHAVING, sAND),
       Write(Len(b.orderBys) > 0, sORDERBY \o Join(b.orderBys, <<",", " ">>)),
       Write(b.limitValid /\ b.limit # 0, sLIMIT \o Itoa(b.limit)),
       Write(b.offsetValid /\ b.offset # 0, sOFFSET \o Itoa(b.offset)) >>

\* SelectBuilder.ToSql up to the rewrite of the placeholders: the statement
\* assembled from the prefixes, the clauses and the suffixes; the first
\* clause that fails ends it
SelectBuilder_assemble(b) ==
    IF Len(b.columns) = 0 THEN {Result(<<>>, <<>>, ErrNoColumns)}
    ELSE
    LET a0 == IF Len(b.prefixes) > 0
              THEN LET a == exprs_AppendToSql(b.prefixes, ResStart, <<" ">>)
                   IN  [a EXCEPT !.sql = @ \o <<" ">>]
              ELSE ResStart
        a1 == [a0 EXCEPT !.sql = @ \o sSELECT
                                   \o (IF b.distinct THEN sDISTINCT ELSE <<>>)
                                   \o (IF Len(b.options) > 0
                                       THEN Join(b.options, <<" ">>) \o <<" ">>
                                       ELSE <<>>)]
        written[n \in 0..Len(Clauses(b))] ==
            IF n = 0 THEN {a1}
            ELSE UNION { IF acc.err # "nil" THEN {acc}
                         ELSE IF Len(c.parts) > 0
                         THEN appendToSql(c.parts, [acc EXCEPT !.sql = @ \o c.head], c.sep)
                         ELSE {[acc EXCEPT !.sql = @ \o c.text]}
                         : acc \in written[n - 1], c \in {Clauses(b)[n]} }
    IN  { IF acc.err # "nil" \/ Len(b.suffixes) = 0 THEN acc
          ELSE exprs_AppendToSql(b.suffixes, [acc EXCEPT !.sql = @ \o <<" ">>], <<" ">>)
          : acc \in written[Len(Clauses(b))] }

\* SelectBuilder.ToSql returning the assembled text as it is
SelectBuilder_ToSqlUnwritten(b) ==
    { IF acc.err # "nil" THEN Result(<<>>, <<>>, acc.err) ELSE acc
      : acc \in SelectBuilder_assemble(b) }

\* SelectBuilder.ToSql: the assembled text goes through the builder's
\* placeholder format once; the arguments are returned as assembled
SelectBuilder_ToSql(b) ==
    { IF acc.err # "nil" THEN Result(<<>>, <<>>, acc.err)
      ELSE Ok(ReplacePlaceholders(b.placeholderFormat, acc.sql), acc.args)
      : acc \in SelectBuilder_assemble(b) }

\* unionPart.ToSql: a SelectBuilder (by value) renders itself, a string is
\* its text with the arguments given, anything else is an error
unionPart_ToSql(p) ==
    CASE p.pred.kind = "SelectBuilderValue" -> SelectBuilder_ToSql(p.pred.b)
      [] p.pred.kind = "string" -> {Ok(p.pred.s, p.args)}
      [] OTHER -> {Result(<<>>, <<>>, ErrUnion)}

\* Sqlizer.ToSql, by the dynamic type of the fragment
ToSql(f) ==
    CASE f.kind = "expr" -> expr_ToSql(f)
      [] f.kind = "aliasExpr" -> aliasExpr_ToSql(f)
      [] f.kind = "lateralExpr" -> lateralExpr_ToSql(f)
      [] f.kind = "Eq" -> Eq_toSql(f, FALSE)
      [] f.kind = "NotEq" -> Eq_toSql(f, TRUE)
      [] f.kind = "Lt" -> Lt_toSql(f, FALSE, FALSE)
      [] f.kind = "LtOrEq" -> Lt_toSql(f, FALSE, TRUE)
      [] f.kind = "Gt" -> Lt_toSql(f, TRUE, FALSE)
      [] f.kind = "GtOrEq" -> Lt_toSql(f, TRUE, TRUE)
      [] f.kind = "And" -> conj_join(f.parts, sAND)
      [] f.kind = "Or" -> conj_join(f.parts, sOR)
      [] f.kind = "Between" -> Between_ToSql(f)
      [] f.kind = "concatExpr" -> concatExpr_ToSql(f.parts)
      [] f.kind = "fn" -> fn_ToSql(f)
      [] f.kind = "array" -> array_ToSql(f)
      [] f.kind = "any" -> any_ToSql(f)
      [] f.kind = "part" -> part_ToSql(f)
      [] f.kind = "unionPart" -> unionPart_ToSql(f)
      [] f.kind = "SelectBuilder" -> SelectBuilder_ToSql(builders[f.ref])

----------------------------------------------------------------------------
(* The caller: it holds a fragment and calls ToSql on it, again and again. *)

NoBuilders == <<>>
NoArrays == <<>>

\* frag.ToSql(): one of the renderings the fragment has
CallToSql ==
    /\ frag # NoFrag
    /\ \E r \in ToSql(frag) : out' = r
    /\ prev' = out
    /\ UNCHANGED <<frag, builders, arrays>>

Holding(f) ==
    /\ frag = f
    /\ out = NoRes
    /\ prev = NoRes
    /\ builders = NoBuilders
    /\ arrays = NoArrays

\* the sequences of at most n elements of S
SeqUpTo(S, n) == UNION {[1..k -> S] : k \in 0..n}

----------------------------------------------------------------------------
(* Expr(sql, args...) over every short template and argument list. *)

Alphabet == {"a", "?", "%"}

\* the fragments handed to Expr as arguments: one without arguments, one with
\* an argument, one whose text has a '%', one with two renderings, one that fails
ArgFrags ==
    { Expr(<<"a">>, <<>>),
      Expr(<<"a", "?">>, <<Scalar(8)>>),
      Expr(<<"%">>, <<>>),
      Pred("Eq", (<<"k">> :> Scalar(6)) @@ (<<"j">> :> Scalar(7))),
      Pred("Lt", (<<"k">> :> Nil)) }

\* the i-th argument is the scalar i or one of the fragments
ExprArgs ==
    UNION { { [i \in 1..n |-> IF c[i] = NoFrag THEN Scalar(i) ELSE c[i]]
              : c \in [1..n -> ArgFrags \cup {NoFrag}] }
            : n \in 0..MaxArgs }

ExprInputs == {Expr(sql, args) : sql \in SeqUpTo(Alphabet, MaxLen), args \in ExprArgs}

InitExpr == \E f \in ExprInputs : Holding(f)

SpecExpr == InitExpr /\ [][CallToSql]_vars

----------------------------------------------------------------------------
(* The predicate maps Eq, NotEq, Lt, LtOrEq, Gt, GtOrEq over every small map. *)

KeyChars == <<"k", "j", "h", "g", "f">>
PredKeys == {<<KeyChars[i]>> : i \in 1..MaxKeys}

PredValues ==
    {Nil, Scalar(1), Bytes}
    \cup {List([i \in 1..n |-> Scalar(10 + i)]) : n \in 0..MaxList}
    \cup {Valuer(Nil, "nil"), Valuer(Scalar(2), "nil"), Valuer(Nil, ErrValuer)}

PredMaps == UNION {[K -> PredValues] : K \in SUBSET PredKeys}

EqKinds == {"Eq", "NotEq"}
LtKinds == {"Lt", "LtOrEq", "Gt", "GtOrEq"}

PredInputs == {Pred(kind, m) : kind \in EqKinds \cup LtKinds, m \in PredMaps}

InitPred == \E f \in PredInputs : Holding(f)

SpecPred == InitPred /\ [][CallToSql]_vars

----------------------------------------------------------------------------
(* And{...} and Or{...} over every short list of children. *)

\* the children: two with an empty text (one of them with an argument), three
\* with a text, one with two renderings, two that fail with different errors
ConjChildren ==
    { Expr(<<>>, <<>>),
      Expr(<<>>, <<Scalar(9)>>),
      Expr(<<"a">>, <<>>),
      Expr(<<"a", "?">>, <<Scalar(1)>>),
      Expr(<<"?">>, <<Scalar(2)>>),
      Pred("Eq", (<<"k">> :> Scalar(6)) @@ (<<"j">> :> Scalar(7))),
      Pred("Lt", (<<"k">> :> Nil)),
      Pred("Gt", (<<"k">> :> List(<<>>))) }

ConjInputs == {Conj(kind, parts) : kind \in {"And", "Or"},
                                   parts \in SeqUpTo(ConjChildren, MaxParts)}

InitConj == \E f \in ConjInputs : Holding(f)

SpecConj == InitConj /\ [][CallToSql]_vars

----------------------------------------------------------------------------
(* Properties of Expr (SpecExpr). *)

RECURSIVE SpliceFrom(_, _, _)
\* what the template of e from position p on, with i marks before p, expands
\* to when a fragment's rendered text replaces its mark verbatim
SpliceFrom(e, p, i) ==
    IF p > Len(e.sql) THEN {[sql |-> <<>>, args |-> <<>>]}
    ELSE IF e.sql[p] # "?"
    THEN {[sql |-> <<e.sql[p]>> \o t.sql, args |-> t.args] : t \in SpliceFrom(e, p + 1, i)}
    ELSE IF i + 1 > Len(e.args)
    THEN {[sql |-> <<"?">> \o t.sql, args |-> t.args] : t \in SpliceFrom(e, p + 1, i + 1)}
    ELSE IF IsSqlizer(e.args[i + 1])
    THEN {[sql |-> r.sql \o t.sql, args |-> r.args \o t.args]
          : r \in {x \in ToSql(e.args[i + 1]) : x.err = "nil"},
            t \in SpliceFrom(e, p + 1, i + 1)}
    ELSE {[sql |-> <<"?">> \o t.sql, args |-> <<e.args[i + 1]>> \o t.args]
          : t \in SpliceFrom(e, p + 1, i + 1)}

\* C2: an Expr with a fragment among its arguments renders to its template
\* with, for the i-th mark, the rendered text of a fragment argument in place
\* of the mark (verbatim) and its arguments appended, or the mark kept and the
\* scalar argument appended, or the mark alone when there is no i-th argument.
C2_TemplateExpansion ==
    (frag.kind = "expr" /\ hasSqlizer(frag.args) /\ out.err = "nil")
        => [sql |-> out.sql, args |-> out.args] \in SpliceFrom(frag, 1, 0)

\* C10: the rendering of an Expr without fragment arguments (the fast path)
\* is a rendering the expansion of the template gives on the same input.
C10_FastPathUnobservable ==
    (frag.kind = "expr" /\ ~hasSqlizer(frag.args) /\ out # NoRes)
        => out \in exprExpand(frag)

----------------------------------------------------------------------------
(* Properties of the predicate maps (SpecPred). *)

Unwrapped(v) == IF v.kind = "valuer" THEN v.value ELSE v
FailingKeys(m) == {k \in DOMAIN m : m[k].kind = "valuer" /\ m[k].verr # "nil"}
MarkList(n) == Join([i \in 1..n |-> <<"?">>], <<",">>)

\* the clause and the arguments the equality family gives one entry
EqClause(kind, key, v) ==
    LET val == Unwrapped(v)
        neg == kind = "NotEq"
    IN  IF val = Nil
        THEN [sql |-> key \o (IF neg THEN <<" ", "I", "S", " ", "N", "O", "T", " ", "N", "U", "L", "L">>
                                     ELSE <<" ", "I", "S", " ", "N", "U", "L", "L">>),
              args |-> <<>>]
        ELSE IF val.kind = "list" /\ Len(val.elems) = 0
        THEN [sql |-> IF neg THEN <<"(", "1", "=", "1", ")">> ELSE <<"(", "1", "=", "0", ")">>,
              args |-> <<>>]
        ELSE IF val.kind = "list"
        THEN [sql |-> key \o (IF neg THEN <<" ", "N", "O", "T", " ", "I", "N", " ", "(">>
                                     ELSE <<" ", "I", "N", " ", "(">>)
                          \o MarkList(Len(val.elems)) \o <<")">>,
              args |-> val.elems]
        ELSE [sql |-> key \o (IF neg THEN <<" ", "<", ">", " ", "?">> ELSE <<" ", "=", " ", "?">>),
              args |-> <<val>>]

\* C5: a successful rendering of Eq or NotEq is, for some order of the keys,
\* the clauses of the entries (IS [NOT] NULL, (1=0)/(1=1), [NOT] IN (?,..,?),
\* = ? / <> ?, decided after unwrapping a Valuer) joined with " AND ", with
\* the arguments of the clauses in that same order; it succeeds when no
\* Valuer fails.
C5_EqualityFamily ==
    (frag.kind \in EqKinds /\ out # NoRes) =>
        /\ FailingKeys(frag.m) = {} => out.err = "nil"
        /\ out.err = "nil" =>
             \E order \in Perms(DOMAIN frag.m) :
                LET cl == [i \in DOMAIN order |-> EqClause(frag.kind, order[i], frag.m[order[i]])]
                IN  /\ out.sql = Join([i \in DOMAIN order |-> cl[i].sql], sAND)
                    /\ out.args = Flatten([i \in DOMAIN order |-> cl[i].args])

\* a NotEq of a list of MaxList elements and a Valuer of null has rendered
C5_Witness ==
    /\ frag.kind = "NotEq"
    /\ <<"k">> \in DOMAIN frag.m /\ <<"j">> \in DOMAIN frag.m
    /\ frag.m[<<"k">>].kind = "list" /\ Len(frag.m[<<"k">>].elems) = MaxList
    /\ frag.m[<<"j">>] = Valuer(Nil, "nil")
    /\ out.err = "nil"
    /\ Len(out.args) = MaxList

LtOp(kind) ==
    CASE kind = "Lt" -> <<"<">>
      [] kind = "LtOrEq" -> <<"<", "=">>
      [] kind = "Gt" -> <<">">>
      [] kind = "GtOrEq" -> <<">", "=">>

\* C6: a rendering of Lt, LtOrEq, Gt or GtOrEq fails when some entry's value
\* (unwrapped) is null or a list, whatever the other entries are; otherwise
\* (and when no Valuer fails) it is, for some order of the keys, the clauses
\* "<key> <op> ?" joined with " AND " with one argument each.
C6_OrderingFamily ==
    (frag.kind \in LtKinds /\ out # NoRes) =>
        LET m == frag.m
            nulls == {k \in DOMAIN m \ FailingKeys(m) : Unwrapped(m[k]) = Nil}
            lists == {k \in DOMAIN m \ FailingKeys(m) : Unwrapped(m[k]).kind = "list"}
        IN  IF nulls \cup lists # {}
            THEN /\ out.err # "nil"
                 /\ FailingKeys(m) = {} =>
                       \/ nulls # {} /\ out.err = ErrNull
                       \/ lists # {} /\ out.err = ErrList
            ELSE FailingKeys(m) = {} =>
                 /\ out.err = "nil"
                 /\ \E order \in Perms(DOMAIN m) :
                       /\ out.sql = Join([i \in DOMAIN order |->
                                            order[i] \o <<" ">> \o LtOp(frag.kind) \o <<" ", "?">>],
                                         sAND)
                       /\ out.args = [i \in DOMAIN order |-> Unwrapped(m[order[i]])]

\* a GtOrEq of two scalars has rendered, and so has an Lt of a scalar and a list
C6_Witness ==
    \/ /\ frag.kind = "GtOrEq"
       /\ Cardinality(DOMAIN frag.m) = 2
       /\ out.err = "nil"
       /\ Len(out.args) = 2
    \/ /\ frag.kind = "Lt"
       /\ Cardinality(DOMAIN frag.m) = 2
       /\ \E k \in DOMAIN frag.m : frag.m[k].kind = "list"
       /\ \E k \in DOMAIN frag.m : frag.m[k] = Scalar(1)
       /\ out.err = ErrList

\* C9: two renderings of one predicate map of two or more keys are the same
\* text and the same arguments.
C9_RenderDeterminism ==
    (frag.kind \in EqKinds \cup LtKinds /\ Cardinality(DOMAIN frag.m) >= 2 /\ prev # NoRes)
        => out = prev

----------------------------------------------------------------------------
(* Properties of And and Or (SpecConj). *)

\* the ways to pick one rendering for each child of c
ChildRenderings(c) ==
    {rs \in [DOMAIN c -> UNION {ToSql(c[i]) : i \in DOMAIN c}] :
        \A i \in DOMAIN c : rs[i] \in ToSql(c[i])}

RECURSIVE NonEmpty(_)
\* the renderings of rs whose text is not empty, in order
NonEmpty(rs) ==
    IF Len(rs) = 0 THEN <<>>
    ELSE (IF rs[1].sql # <<>> THEN <<rs[1]>> ELSE <<>>) \o NonEmpty(Tail(rs))

\* C7: a successful rendering of And or Or is, for renderings of its children,
\* the non-empty child texts in child order joined by " AND " or " OR " inside
\* one pair of parentheses, with the arguments of those children in child
\* order; it is the empty text without arguments when no child has a text.
C7_Combinators ==
    (frag.kind \in {"And", "Or"} /\ out.err = "nil") =>
        \E rs \in ChildRenderings(frag.parts) :
            LET kept == NonEmpty(rs)
                sep == IF frag.kind = "And" THEN sAND ELSE sOR
            IN  /\ \A i \in DOMAIN rs : rs[i].err = "nil"
                /\ out.args = Flatten([i \in DOMAIN kept |-> kept[i].args])
                /\ out.sql = IF Len(kept) = 0 THEN <<>>
                             ELSE <<"(">> \o Join([i \in DOMAIN kept |-> kept[i].sql], sep)
                                  \o <<")">>

\* an Or of a child without text but with an argument and two children with
\* a text and an argument each has rendered
C7_Witness ==
    /\ frag.kind = "Or"
    /\ Len(frag.parts) = 3
    /\ frag.parts[1] = Expr(<<>>, <<Scalar(9)>>)
    /\ frag.parts[2] = Expr(<<"a", "?">>, <<Scalar(1)>>)
    /\ frag.parts[3] = Expr(<<"?">>, <<Scalar(2)>>)
    /\ out = Ok(<<"(", "a", "?", " ", "O", "R", " ", "?", ")">>, <<Scalar(1), Scalar(2)>>)

----------------------------------------------------------------------------
(* The constructors, applied one on another (Spec): the caller builds a     *)
(* fragment from values, wraps the fragment it holds in further ones, and   *)
(* renders what it holds.                                                   *)

Max(S) == CHOOSE x \in S : \A y \in S : y <= x

RECURSIVE Depth(_)
\* the nesting depth of a fragment; a value that is no fragment has depth 0
Depth(f) ==
    LET Deepest(s) == Max({0} \cup {Depth(s[i]) : i \in DOMAIN s})
    IN  CASE f.kind = "expr" -> 1 + Deepest(f.args)
          [] f.kind \in {"And", "Or", "concatExpr"} -> 1 + Deepest(f.parts)
          [] f.kind = "fn" -> 1 + Deepest(f.fargs)
          [] f.kind \in {"aliasExpr", "lateralExpr"} -> 1 + Depth(f.expr)
          [] f.kind \in EqKinds \cup LtKinds \cup {"Between"} -> 1
          [] OTHER -> 0

Hold(f) ==
    /\ Depth(f) <= MaxDepth
    /\ frag' = f
    /\ out' = NoRes
    /\ prev' = NoRes
    /\ UNCHANGED <<builders, arrays>>

\* x alone, or x before or after one of S
Around(x, S) == {<<x>>} \cup {<<x, s>> : s \in S} \cup {<<s, x>> : s \in S}

WbTemplates == {<<>>, <<"?">>, <<"%">>, <<"?", "?">>, <<"%", "?">>}

\* the argument lists of the workbench: scalars at first, then the held
\* fragment alone, or before or after a scalar
WbArgs ==
    IF frag = NoFrag THEN {<<>>, <<Scalar(1)>>, <<Scalar(1), Scalar(2)>>}
    ELSE Around(frag, {Scalar(3)})

WbPreds ==
    { Pred("Eq", (<<"k">> :> Scalar(6)) @@ (<<"j">> :> List(<<Scalar(7), Scalar(8)>>))),
      Pred("NotEq", (<<"k">> :> List(<<>>))),
      Pred("Eq", (<<"?">> :> Scalar(6))),
      Pred("LtOrEq", (<<"k">> :> Scalar(6))),
      Pred("Gt", (<<"k">> :> Nil)) }

WbSiblings == {Expr(<<>>, <<Scalar(9)>>), Expr(<<"?">>, <<Scalar(5)>>)}

\* Expr(sql, args...)
NewExpr == \E sql \in WbTemplates, args \in WbArgs : Hold(Expr(sql, args))

\* Eq{...}, NotEq{...}, Lt{...}, LtOrEq{...}, Gt{...}, GtOrEq{...}
NewPred ==
    /\ frag = NoFrag
    /\ \E f \in WbPreds : Hold(f)

\* Between{field, left, right}
NewBetween ==
    /\ frag = NoFrag
    /\ Hold(Between(<<"a">>, Scalar(1), Scalar(2)))

\* And{...}, Or{...}
NewConj ==
    /\ frag # NoFrag
    /\ \E kind \in {"And", "Or"}, parts \in Around(frag, WbSiblings) : Hold(Conj(kind, parts))

\* ConcatExpr(parts...)
NewConcatExpr ==
    /\ frag # NoFrag
    /\ \E parts \in Around(frag, {String(<<"a">>), String(<<"?">>), Scalar(4)}) :
          Hold(ConcatExpr(parts))

\* Fn(name, args...)
NewFn ==
    \E args \in (IF frag = NoFrag THEN {<<>>} ELSE Around(frag, WbSiblings)) :
        Hold(Fn(<<"f">>, args))

\* Alias(expr, alias)
NewAlias ==
    /\ frag # NoFrag
    /\ Hold(Alias(frag, <<"x">>))

Init ==
    /\ frag = NoFrag
    /\ out = NoRes
    /\ prev = NoRes
    /\ builders = NoBuilders
    /\ arrays = NoArrays

Next ==
    \/ NewExpr
    \/ NewPred
    \/ NewBetween
    \/ NewConj
    \/ NewConcatExpr
    \/ NewFn
    \/ NewAlias
    \/ CallToSql

Spec == Init /\ [][Next]_vars

RECURSIVE Balanced(_)
\* every raw string of the fragment is balanced: an Expr template has as many
\* marks as the Expr has arguments, and no map key, field, string segment,
\* function name or alias has a mark
Balanced(f) ==
    LET All(s) == \A i \in DOMAIN s : IsSqlizer(s[i]) => Balanced(s[i])
    IN  CASE f.kind = "expr" -> CountMarks(f.sql) = Len(f.args) /\ All(f.args)
          [] f.kind \in EqKinds \cup LtKinds -> \A k \in DOMAIN f.m : CountMarks(k) = 0
          [] f.kind \in {"And", "Or"} -> All(f.parts)
          [] f.kind = "Between" -> CountMarks(f.field) = 0
          [] f.kind = "concatExpr" ->
                /\ All(f.parts)
                /\ \A i \in DOMAIN f.parts :
                      f.parts[i].kind = "string" => CountMarks(f.parts[i].s) = 0
          [] f.kind = "fn" -> CountMarks(f.name) = 0 /\ All(f.fargs)
          [] f.kind = "aliasExpr" -> CountMarks(f.alias) = 0 /\ Balanced(f.expr)
          [] OTHER -> FALSE

----------------------------------------------------------------------------
(* The methods of SelectBuilder, and a caller of them (SpecSelect): the     *)
(* caller holds the builder builders[1] and a sub-select, builders[2].      *)

\* b.PlaceholderFormat(f)
PlaceholderFormat(b, f) == [b EXCEPT !.placeholderFormat = f]

\* b.Prefix(sql, args...)
Prefix(b, sql, args) == [b EXCEPT !.prefixes = Append(@, Expr(sql, args))]

\* b.Columns(columns...)
Columns(b, columns) ==
    [b EXCEPT !.columns = @ \o [i \in DOMAIN columns |-> newPart(String(columns[i]), <<>>)]]

\* b.Column(column, args...): a *SelectBuilder is rendered at once, its
\* text put into "(%s) AS %s" with args[0], its arguments and its error dropped
Column(b, column, args) ==
    IF column.kind = "SelectBuilder"
    THEN { [b EXCEPT !.columns =
                Append(@, newPart(String(<<"(">> \o r.sql \o <<")", " ", "A", "S", " ">>
                                         \o args[1].s),
                                  args))]
           : r \in ToSql(column) }
    ELSE {[b EXCEPT !.columns = Append(@, newPart(column, args))]}

\* b.FromSelect(from, alias)
FromSelect(b, from, alias) == [b EXCEPT !.fromParts = Append(@, Alias(from, alias))]

\* b.LateralJoin(from, alias)
LateralJoin(b, from, alias) == [b EXCEPT !.fromParts = Append(@, lateralJoin(from, alias))]

\* b.Where(pred, args...)
Where(b, pred, args) == [b EXCEPT !.whereParts = Append(@, newWherePart(pred, args))]

\* b.Suffix(sql, args...)
Suffix(b, sql, args) == [b EXCEPT !.suffixes = Append(@, Expr(sql, args))]

\* b.Union(query, args...)
Union(b, query, args) == [b EXCEPT !.union = Append(@, newUnionPart(query, args))]

\* the number of clause parts a builder holds
Calls(b) ==
    Len(b.prefixes) + Len(b.columns) + Len(b.fromParts) + Len(b.joins)
    + Len(b.whereParts) + Len(b.union) + Len(b.unionAll) + Len(b.havingParts)
    + Len(b.suffixes)

\* the sub-selects: "SELECT b WHERE ?" under either format, and one whose
\* WHERE clause fails
SubQuestion ==
    Where(Columns(NewSelectBuilder("Question"), <<Str1("b")>>), String(<<"?">>), <<Scalar(7)>>)
SubDollar == PlaceholderFormat(SubQuestion, "Dollar")
SubFailing ==
    Where(Columns(NewSelectBuilder("Question"), <<Str1("b")>>),
          Pred("Lt", (<<"k">> :> Nil)), <<>>)
SubSelects == {SubQuestion, SubDollar, SubFailing}

Outer == 1
Sub == 2

\* the builder the caller holds becomes b
Become(b) ==
    /\ Calls(builders[Outer]) < MaxCalls
    /\ builders' = [builders EXCEPT ![Outer] = b]
    /\ out' = NoRes
    /\ prev' = NoRes
    /\ UNCHANGED <<frag, arrays>>

CallPlaceholderFormat ==
    \E f \in {"Question", "Dollar"} :
        /\ builders[Outer].placeholderFormat # f
        /\ builders' = [builders EXCEPT ![Outer] = PlaceholderFormat(@, f)]
        /\ out' = NoRes
        /\ prev' = NoRes
        /\ UNCHANGED <<frag, arrays>>

CallPrefix == Become(Prefix(builders[Outer], <<"?">>, <<Scalar(3)>>))

CallColumns == Become(Columns(builders[Outer], <<Str1("a")>>))

\* b.Column(sub, "x")
CallColumn == \E b \in Column(builders[Outer], Ref(Sub), <<String(<<"x">>)>>) : Become(b)

CallFromSelect == Become(FromSelect(builders[Outer], Ref(Sub), <<"s">>))

CallLateralJoin == Become(LateralJoin(builders[Outer], Ref(Sub), <<"s">>))

\* b.Where("?<?", 1, 2), and b.Where(Gt{"k": []int{}})
CallWhere ==
    \/ Become(Where(builders[Outer], String(<<"?", "<", "?">>), <<Scalar(1), Scalar(2)>>))
    \/ Become(Where(builders[Outer], Pred("Gt", (<<"k">> :> List(<<>>))), <<>>))

CallSuffix == Become(Suffix(builders[Outer], <<"?">>, <<Scalar(4)>>))

\* b.Union(*sub): the sub-select by value
CallUnion == Become(Union(builders[Outer], Copy(builders[Sub]), <<>>))

\* b.Union(sub): the sub-select by reference
CallUnionOfPointer == Become(Union(builders[Outer], Ref(Sub), <<>>))

\* b.ToSql(), of a statement not rendered yet
CallSelectToSql ==
    /\ out = NoRes
    /\ \E r \in SelectBuilder_ToSql(builders[Outer]) : out' = r
    /\ UNCHANGED <<frag, builders, prev, arrays>>

InitSelect ==
    /\ frag = NoFrag
    /\ out = NoRes
    /\ prev = NoRes
    /\ \E sub \in SubSelects : builders = <<NewSelectBuilder("Question"), sub>>
    /\ arrays = NoArrays

NextSelect ==
    \/ CallPlaceholderFormat
    \/ CallPrefix
    \/ CallColumns
    \/ CallColumn
    \/ CallFromSelect
    \/ CallLateralJoin
    \/ CallWhere
    \/ CallSuffix
    \/ CallUnion
    \/ CallUnionOfPointer
    \/ CallSelectToSql

SpecSelect == InitSelect /\ [][NextSelect]_vars

----------------------------------------------------------------------------
(* Properties of SelectBuilder.ToSql (SpecSelect). *)

RECURSIVE NumberedFrom(_, _)
\* t with its generic marks replaced by "$k", "$k+1", ... from left to right
NumberedFrom(t, k) ==
    IF Marks(t) = {} THEN t
    ELSE LET p == CHOOSE q \in Marks(t) : \A r \in Marks(t) : q <= r
         IN  SubSeq(t, 1, p - 1) \o <<"$">> \o Itoa(k)
                \o NumberedFrom(SubSeq(t, p + 1, Len(t)), k + 1)

Numbered(t) == NumberedFrom(t, 1)

\* C3: a successful rendering of a statement is the assembled text with its
\* generic marks replaced by $1, $2, ..., $k from left to right under Dollar,
\* and the assembled text unchanged under Question; the arguments are the
\* assembled arguments, in their order.
C3_PositionalRewrite ==
    out.err = "nil" =>
        \E a \in SelectBuilder_assemble(builders[Outer]) :
            /\ a.err = "nil"
            /\ out.args = a.args
            /\ out.sql = IF builders[Outer].placeholderFormat = "Dollar"
                         THEN Numbered(a.sql) ELSE a.sql

\* "SELECT a WHERE ?<? ?" has rendered under Dollar
C3_Witness ==
    /\ builders[Outer].placeholderFormat = "Dollar"
    /\ out = Ok(sSELECT \o <<"a">> \o sWHERE \o <<"$", "1", "<", "$", "2", " ", "$", "3">>,
                <<Scalar(1), Scalar(2), Scalar(4)>>)

\* the sub-select is nested in b by FromSelect, LateralJoin or Union
Nests(b) ==
    \/ \E i \in DOMAIN b.fromParts : b.fromParts[i].expr = Ref(Sub)
    \/ \E i \in DOMAIN b.union : b.union[i].pred.kind = "SelectBuilderValue"

\* the j-th "$" of t, at position i, is followed by the number j
IsDollar(t, i, j) ==
    LET d == Itoa(j)
    IN  /\ i + Len(d) <= Len(t)
        /\ SubSeq(t, i + 1, i + Len(d)) = d
        /\ (i + Len(d) < Len(t) => t[i + Len(d) + 1] \notin DigitChars)

\* C4: the text of a statement that nests a sub-select (by FromSelect,
\* LateralJoin or Union), rendered under Dollar, has no generic mark left and
\* holds each of $1..$k once, from left to right, k the number of arguments --
\* whatever the format of the sub-select.
C4_SingleRewrite ==
    ( /\ builders[Outer].placeholderFormat = "Dollar"
      /\ Nests(builders[Outer])
      /\ \A i \in DOMAIN builders[Outer].columns : builders[Outer].columns[i].args = <<>>
      /\ out.err = "nil" )
    => LET dollars == {i \in DOMAIN out.sql : out.sql[i] = "$"}
       IN  /\ CountMarks(out.sql) = 0
           /\ Cardinality(dollars) = Len(out.args)
           /\ \A i \in dollars :
                 IsDollar(out.sql, i, Cardinality({q \in dollars : q <= i}))

\* the renderings of the builder and of the sub-select
OuterRenderings == SelectBuilder_ToSql(builders[Outer])
SubRenderings == SelectBuilder_ToSql(builders[Sub])

\* C8: when a builder that renders is given, through Column, FromSelect or
\* Union, a sub-select whose rendering fails, every rendering of the builder
\* then fails with the error of the sub-select.
C8_FailClosed ==
    [][ ( /\ CallColumn \/ CallFromSelect \/ CallUnion
          /\ \A r \in SubRenderings : r.err # "nil"
          /\ \A r \in OuterRenderings : r.err = "nil" )
        => \A r \in OuterRenderings' : r.err \in {x.err : x \in SubRenderings} ]_vars

----------------------------------------------------------------------------
(* The accumulation calls on one SelectBuilder (SpecSlots): the caller      *)
(* holds the builder builders[1] and calls its methods in any order;        *)
(* builders[2] is a sub-select, builders[3] the builder the last InnerJoin  *)
(* call returned.                                                           *)

sINNERJOIN == <<"I", "N", "N", "E", "R", " ", "J", "O", "I", "N", " ">>
sCOUNT == <<"c", "o", "u", "n", "t", "(", "1", ")", " ", "a", "s", " ">>

\* b.From(tables...)
From(b, tables) ==
    [b EXCEPT !.fromParts = @ \o [i \in DOMAIN tables |-> newPart(String(tables[i]), <<>>)]]

\* b.JoinClause(pred, args...)
JoinClause(b, pred, args) == [b EXCEPT !.joins = Append(@, newPart(pred, args))]

\* b.InnerJoin(join, rest...): the receiver is a SelectBuilder value, so b
\* here is the copy the call works on; the result is the builder returned
InnerJoin(b, join, rest) == JoinClause(b, String(sINNERJOIN \o join), rest)

\* b.Having(pred, rest...)
Having(b, pred, rest) == [b EXCEPT !.havingParts = Append(@, newWherePart(pred, rest))]

\* b.GroupBy(groupBys...)
GroupBy(b, groupBys) == [b EXCEPT !.groupBys = @ \o groupBys]

\* b.OrderBy(orderBys...)
OrderBy(b, orderBys) == [b EXCEPT !.orderBys = @ \o orderBys]

\* b.Limit(limit)
Limit(b, limit) == [b EXCEPT !.limit = limit, !.limitValid = TRUE]

\* b.Offset(offset)
Offset(b, offset) == [b EXCEPT !.offset = offset, !.offsetValid = TRUE]

\* b.UnionAll(query, args...)
UnionAll(b, query, args) == [b EXCEPT !.unionAll = Append(@, newUnionPart(query, args))]

\* b.Count(alias), the limit and the offset left valid
CountKeepingLimit(b, alias) ==
    [Columns([b EXCEPT !.columns = <<>>], <<sCOUNT \o alias>>)
        EXCEPT !.orderBys = <<>>]

\* b.Count(alias)
Count(b, alias) ==
    [Columns([b EXCEPT !.columns = <<>>], <<sCOUNT \o alias>>)
        EXCEPT !.orderBys = <<>>, !.limitValid = FALSE, !.offsetValid = FALSE]

Returned == 3

\* the number of accumulation calls a builder shows
Size(b) ==
    Calls(b) + Len(b.groupBys) + Len(b.orderBys)
    + (IF b.limitValid THEN 1 ELSE 0) + (IF b.offsetValid THEN 1 ELSE 0)

\* a method with a pointer receiver has changed the builder the caller holds
Grow(b) ==
    /\ Size(builders[Outer]) < MaxCalls
    /\ builders' = [builders EXCEPT ![Outer] = b]
    /\ out' = NoRes
    /\ UNCHANGED <<frag, prev, arrays>>

SlotPrefix == Grow(Prefix(builders[Outer], <<"p", "?">>, <<Scalar(0)>>))

SlotColumns == Grow(Columns(builders[Outer], <<Str1("a")>>))

SlotFrom == Grow(From(builders[Outer], <<Str1("t")>>))

SlotJoinClause ==
    Grow(JoinClause(builders[Outer], String(<<"j", "?">>), <<Scalar(5)>>))

\* b.InnerJoin("i?", 9): the call works on a copy of *b and returns it
SlotInnerJoin ==
    /\ Size(builders[Outer]) < MaxCalls
    /\ builders' = [builders EXCEPT ![Returned] =
                        InnerJoin(builders[Outer], <<"i", "?">>, <<Scalar(9)>>)]
    /\ UNCHANGED <<frag, out, prev, arrays>>

\* b.Where("?<?", 1, 2), and b.Where("w?") without its argument
SlotWhere ==
    \/ Grow(Where(builders[Outer], String(<<"?", "<", "?">>), <<Scalar(1), Scalar(2)>>))
    \/ Grow(Where(builders[Outer], String(<<"w", "?">>), <<>>))

SlotHaving == Grow(Having(builders[Outer], String(<<"h", "?">>), <<Scalar(6)>>))

SlotUnionAll == Grow(UnionAll(builders[Outer], String(<<"u", "?">>), <<Scalar(8)>>))

SlotGroupBy == Grow(GroupBy(builders[Outer], <<Str1("g")>>))

SlotOrderBy == Grow(OrderBy(builders[Outer], <<Str1("o")>>))

SlotLimit == Grow(Limit(builders[Outer], 2))

SlotOffset == Grow(Offset(builders[Outer], 3))

SlotSuffix == Grow(Suffix(builders[Outer], <<"s", "?">>, <<Scalar(4)>>))

\* b.Count("n"), on a builder not rendered since its last change
SlotCount ==
    /\ out = NoRes
    /\ builders' = [builders EXCEPT ![Outer] = Count(@, <<"n">>)]
    /\ UNCHANGED <<frag, out, prev, arrays>>

InitSlots ==
    /\ frag = NoFrag
    /\ out = NoRes
    /\ prev = NoRes
    /\ builders = <<NewSelectBuilder("Question"), SubQuestion, NewSelectBuilder("Question")>>
    /\ arrays = NoArrays

NextSlots ==
    \/ SlotPrefix
    \/ SlotColumns
    \/ SlotFrom
    \/ SlotJoinClause
    \/ SlotInnerJoin
    \/ SlotWhere
    \/ SlotHaving
    \/ SlotUnionAll
    \/ SlotGroupBy
    \/ SlotOrderBy
    \/ SlotLimit
    \/ SlotOffset
    \/ SlotSuffix
    \/ SlotCount
    \/ CallSelectToSql

SpecSlots == InitSlots /\ [][NextSlots]_vars

----------------------------------------------------------------------------
(* Properties of the accumulation calls (SpecSlots). *)

\* the arguments of the parts of a slot, in the order of the slot
SlotArgs(parts) ==
    Flatten([i \in DOMAIN parts |-> (CHOOSE r \in ToSql(parts[i]) : TRUE).args])

\* the arguments of the exprs of the prefixes or the suffixes
ExprsArgs(es) == Flatten([i \in DOMAIN es |-> es[i].args])

\* the arguments of the slots, slot by slot in the order of the clauses
ArgsBySlot(b) ==
    ExprsArgs(b.prefixes) \o SlotArgs(b.columns) \o SlotArgs(b.fromParts)
    \o SlotArgs(b.joins) \o SlotArgs(b.whereParts) \o SlotArgs(b.union)
    \o SlotArgs(b.unionAll) \o SlotArgs(b.havingParts) \o ExprsArgs(b.suffixes)

\* every string part and every expr of b has as many marks as arguments
BalancedParts(b) ==
    /\ \A s \in {b.columns, b.fromParts, b.joins, b.whereParts, b.union,
                 b.unionAll, b.havingParts} :
          \A i \in DOMAIN s :
             s[i].pred.kind = "string" => CountMarks(s[i].pred.s) = Len(s[i].args)
    /\ \A s \in {b.prefixes, b.suffixes} :
          \A i \in DOMAIN s : CountMarks(s[i].sql) = Len(s[i].args)

\* C11 as stated: the arguments of a rendered statement are those of its
\* slots in the order prefixes, columns, FROM, joins, WHERE, UNION, UNION
\* ALL, HAVING, suffixes, and the text has one mark for each argument.
C11_ArgumentOrder ==
    out.err = "nil" =>
        /\ out.args = ArgsBySlot(builders[Outer])
        /\ CountMarks(out.sql) = Len(out.args)

\* C11: the arguments of a rendered statement are those of its slots in the
\* order prefixes, columns, FROM, joins, WHERE, UNION, UNION ALL, HAVING,
\* suffixes, in call order within a slot; the text has one mark for each
\* argument when every part given has as many marks as arguments.
C11_ArgumentOrderOfBalanced ==
    out.err = "nil" =>
        /\ out.args = ArgsBySlot(builders[Outer])
        /\ BalancedParts(builders[Outer]) => CountMarks(out.sql) = Len(out.args)

\* a prefix, a WHERE clause and a suffix have rendered with their arguments
C11_Witness ==
    /\ Len(builders[Outer].prefixes) = 1
    /\ Len(builders[Outer].whereParts) = 1
    /\ Len(builders[Outer].suffixes) = 1
    /\ out.err = "nil"
    /\ out.args = <<Scalar(0), Scalar(1), Scalar(2), Scalar(4)>>

\* C14: after b.InnerJoin(join, rest...) the joins slot of b itself holds the
\* new clause "INNER JOIN join" with its arguments.
C14_InnerJoinOfReceiver ==
    [][SlotInnerJoin =>
          builders'[Outer].joins =
             Append(builders[Outer].joins,
                    newPart(String(sINNERJOIN \o <<"i", "?">>), <<Scalar(9)>>))]_vars

\* b.InnerJoin(join, rest...) leaves b as it is: the clause is in the builder
\* returned alone.
C14_InnerJoinOfCopy ==
    [][SlotInnerJoin =>
          /\ builders'[Outer] = builders[Outer]
          /\ builders'[Returned].joins =
                Append(builders[Outer].joins,
                       newPart(String(sINNERJOIN \o <<"i", "?">>), <<Scalar(9)>>))]_vars

\* b.InnerJoin has returned a builder with a join b has not, and b has rendered
C14_Witness ==
    /\ Len(builders[Returned].joins) = 1
    /\ Len(builders[Outer].joins) = 0
    /\ out.err = "nil"

\* sub occurs in the text t
Occurs(sub, t) ==
    \E i \in 1..(Len(t) - Len(sub) + 1) : SubSeq(t, i, i + Len(sub) - 1) = sub

\* the slots of b that hold neither the columns, the order, the limit nor
\* the offset
OtherSlots(b) ==
    <<b.placeholderFormat, b.prefixes, b.distinct, b.options, b.fromParts, b.joins,
      b.whereParts, b.groupBys, b.havingParts, b.union, b.unionAll, b.suffixes>>

\* C15: after b.Count(alias), whatever calls preceded it, b renders the single
\* result column "count(1) as alias", no ORDER BY, no LIMIT and no OFFSET,
\* and its other slots and their arguments are unchanged.
C15_CountOfQuery ==
    [][SlotCount =>
          /\ OtherSlots(builders'[Outer]) = OtherSlots(builders[Outer])
          /\ \A r \in SelectBuilder_ToSql(builders'[Outer]) :
                /\ r.err = "nil"
                /\ Occurs(sSELECT \o sCOUNT \o <<"n">>, r.sql)
                /\ ~Occurs(sCOUNT \o <<"n", ",">>, r.sql)
                /\ ~Occurs(sORDERBY, r.sql)
                /\ ~Occurs(sLIMIT, r.sql)
                /\ ~Occurs(sOFFSET, r.sql)
                /\ r.args = ArgsBySlot([builders[Outer] EXCEPT !.columns = <<>>])]_vars

\* Count after a column, a limit and a WHERE clause, and the count rendered
C15_Witness ==
    /\ builders[Outer].limit = 2
    /\ ~builders[Outer].limitValid
    /\ out = Ok(sSELECT \o sCOUNT \o <<"n">> \o sWHERE \o <<"?", "<", "?">>,
                <<Scalar(1), Scalar(2)>>)

----------------------------------------------------------------------------
(* Fn(name, args...) over every short list of argument fragments. *)

\* the argument fragments: with and without bound arguments, with two
\* renderings, function calls themselves, and two that fail
FnChildren ==
    { Expr(<<"a">>, <<>>),
      Expr(<<"a", "?">>, <<Scalar(1)>>),
      Expr(<<"?", "?">>, <<Scalar(2), Scalar(3)>>),
      Pred("Eq", (<<"k">> :> Scalar(6)) @@ (<<"j">> :> Scalar(7))),
      Fn(<<"g">>, <<>>),
      Fn(<<"g">>, <<Expr(<<"?">>, <<Scalar(4)>>), Expr(<<"?">>, <<Scalar(5)>>)>>),
      Pred("Lt", (<<"k">> :> Nil)),
      Pred("Gt", (<<"k">> :> List(<<>>))) }

FnInputs == {Fn(<<"f">>, args) : args \in SeqUpTo(FnChildren, MaxParts)}

InitFn == \E f \in FnInputs : Holding(f)

SpecFn == InitFn /\ [][CallToSql]_vars

----------------------------------------------------------------------------
(* Properties of Fn (SpecFn). *)

\* the ways to choose one successful rendering for each of the fragments fs
Renderings(fs) ==
    {rs \in [DOMAIN fs -> UNION {ToSql(fs[i]) : i \in DOMAIN fs}] :
        \A i \in DOMAIN fs : rs[i] \in ToSql(fs[i]) /\ rs[i].err = "nil"}

\* name(text1 sep text2 sep ...) with the arguments of the fragments in order
CallsOf(fn, sep) ==
    { Ok(fn.name \o <<"(">> \o Join([i \in DOMAIN rs |-> rs[i].sql], sep) \o <<")">>,
         Flatten([i \in DOMAIN rs |-> rs[i].args]))
      : rs \in Renderings(fn.fargs) }

\* C12 as stated: a function call renders as its name and, in parentheses,
\* the texts of its argument fragments separated by a single comma, with
\* their arguments in the same order.
C12_FnSingleComma ==
    (frag.kind = "fn" /\ out.err = "nil") => out \in CallsOf(frag, <<",">>)

\* C12: a function call renders as its name and, in parentheses, the texts
\* of its argument fragments in order separated by a comma and a space, with
\* the arguments of the argument fragments in the same order; without
\* argument fragments it renders as name() without arguments.
C12_FnCommaSpace ==
    (frag.kind = "fn" /\ out.err = "nil") =>
        /\ out \in CallsOf(frag, <<",", " ">>)
        /\ Len(frag.fargs) = 0 => out = Ok(frag.name \o <<"(", ")">>, <<>>)

\* a call of two argument fragments, a function call among them, has rendered
C12_Witness ==
    /\ frag = Fn(<<"f">>, <<Expr(<<"a", "?">>, <<Scalar(1)>>),
                          Fn(<<"g">>, <<Expr(<<"?">>, <<Scalar(4)>>),
                                        Expr(<<"?">>, <<Scalar(5)>>)>>)>>)
    /\ out = Ok(<<"f", "(", "a", "?", ",", " ", "g", "(", "?", ",", " ", "?", ")", ")">>,
                <<Scalar(1), Scalar(4), Scalar(5)>>)

----------------------------------------------------------------------------
(* Array(v) and Any(column, v) over short sequences of every element type. *)

\* the elements a sequence of element type base can hold
Elements(base) ==
    CASE base = "int" -> {Scalar(6), Scalar(42)}
      [] base = "string" -> {String(<<"f", "\"">>), String(<<"\\">>)}
      [] base = "struct" -> {Struct}
      [] base = "interface" -> {Scalar(6), String(<<"f", "\"">>)}

\* []T and [][]T for each element type T, of at most MaxList elements at
\* each level, and two values that are no sequences
ArrayValues ==
    UNION { {Slice(base, 1, es) : es \in SeqUpTo(Elements(base), MaxList)}
            \cup {Slice(base, 2, es)
                     : es \in SeqUpTo({Slice(base, 1, e)
                                         : e \in SeqUpTo(Elements(base), MaxList)},
                                      MaxList)}
            : base \in {"int", "string", "struct", "interface"} }
    \cup {Scalar(42), String(<<"f">>)}

AnyInputs ==
    {Array(v) : v \in ArrayValues} \cup {AnyExpr(<<"c">>, v) : v \in ArrayValues}

InitAny == \E f \in AnyInputs : Holding(f)

SpecAny == InitAny /\ [][CallToSql]_vars

----------------------------------------------------------------------------
(* Properties of Array and Any (SpecAny). *)

\* a brace literal: text in braces
IsBraceLiteral(v) ==
    /\ v.kind = "string"
    /\ Len(v.s) >= 2
    /\ v.s[1] = "{"
    /\ v.s[Len(v.s)] = "}"

\* Array(v) has rendered
Rendered(v) == \E r \in ToSql(Array(v)) : r.err = "nil"

\* C13: for a valid sequence v, Array(v) renders the text "?" with one
\* argument, a brace literal that is {} for an empty sequence, and
\* Any(column, v) renders "column = ANY(?)" with that same single argument;
\* when Array(v) fails, Any(column, v) fails with the same error and has no
\* text and no arguments.
C13_AnyOfArray ==
    /\ (frag.kind = "array" /\ out.err = "nil") =>
           /\ out.sql = <<"?">>
           /\ Len(out.args) = 1
           /\ IsBraceLiteral(out.args[1])
           /\ frag.value.elems = <<>> => out.args[1] = String(<<"{", "}">>)
    /\ (frag.kind = "any" /\ out # NoRes) =>
           \E r \in ToSql(frag.args) :
              IF r.err = "nil"
              THEN /\ out.err = "nil"
                   /\ out.sql = frag.column
                                 \o <<" ", "=", " ", "A", "N", "Y", "(", "?", ")">>
                   /\ out.args = r.args
                   /\ Len(out.args) = 1
              ELSE out = Result(<<>>, <<>>, r.err)
    /\ (frag.kind \in {"array", "any"} /\ out # NoRes) =>
           LET v == IF frag.kind = "any" THEN frag.args.value ELSE frag.value
           IN  /\ v.kind # "slice" => out.err # "nil"
               /\ (v.kind = "slice" /\ v.base \in {"struct", "interface"})
                     => out.err # "nil"
               /\ (v.kind = "slice" /\ v.base \in {"int", "string"})
                     => out.err = "nil"

\* Any over a [][]int has rendered
C13_Witness ==
    /\ frag = AnyExpr(<<"c">>, Slice("int", 2, <<Slice("int", 1, <<Scalar(6), Scalar(42)>>),
                                                Slice("int", 1, <<>>)>>))
    /\ out = Ok(<<"c", " ", "=", " ", "A", "N", "Y", "(", "?", ")">>,
                <<String(<<"{", "{", "6", ",", "4", "2", "}", ",", "{", "}", "}">>)>>)

\* Any over a sequence of mixed elements has failed
C13_Failed ==
    /\ frag = AnyExpr(<<"c">>, Slice("interface", 1, <<Scalar(6), String(<<"f", "\"">>)>>))
    /\ out = Result(<<>>, <<>>, ErrTypeMismatch)

----------------------------------------------------------------------------
(* Clone: builders whose columns and WHERE parts are slices, a slice being
   a reference to a backing array and a length. *)

MaxCap == 4   \* the most elements a slice is given

\* the nil slice; the reference of any other slice is the place its backing
\* array was made at: the builder, the slot, and the length of the slice then
NilArray == <<0, "nil", 0>>
NilSlice == [arr |-> NilArray, len |-> 0]

\* cap(s) and s[0:len(s)] with the backing arrays ars
Cap(ars, s) == IF s.arr = NilArray THEN 0 ELSE Len(ars[s.arr])
Elems(ars, s) == IF s.arr = NilArray THEN <<>> ELSE SubSeq(ars[s.arr], 1, s.len)

\* the capacities a grown array may have: the language leaves it to the
\* implementation; the gc runtime doubles the capacity of a short slice
GrownCaps(ars, s) == {c \in {s.len + 1, 2 * Cap(ars, s)} : c > s.len /\ c <= MaxCap}

\* append(s, x): x is written after the elements of s into the backing array
\* of s when it has room, and into a new array with the elements of s, made
\* at the place new, otherwise
append(ars, s, x, new) ==
    IF s.len < Cap(ars, s)
    THEN {[arrays |-> [ars EXCEPT ![s.arr][s.len + 1] = x],
           slice |-> [s EXCEPT !.len = @ + 1]]}
    ELSE {[arrays |-> ars @@ (new :> (Elems(ars, s) \o <<x>>
                                     \o [i \in 1..(c - s.len - 1) |-> NoFrag])),
           slice |-> [arr |-> new, len |-> s.len + 1]]
          : c \in GrownCaps(ars, s)}

\* NewSelectBuilder: the slices are nil
NewSliceBuilder ==
    [NewSelectBuilder("Question") EXCEPT !.columns = NilSlice, !.whereParts = NilSlice]

\* b.Clone(): every field is copied, of a slice the reference and the length
Clone(b) ==
    [ placeholderFormat |-> b.placeholderFormat,
      prefixes |-> b.prefixes, distinct |-> b.distinct, options |-> b.options,
      columns |-> b.columns, fromParts |-> b.fromParts, joins |-> b.joins,
      whereParts |-> b.whereParts, groupBys |-> b.groupBys,
      havingParts |-> b.havingParts, orderBys |-> b.orderBys, union |-> b.union,
      unionAll |-> b.unionAll, limit |-> b.limit, limitValid |-> b.limitValid,
      offset |-> b.offset, offsetValid |-> b.offsetValid, suffixes |-> b.suffixes ]

\* the builder b with the elements of its slices, as ToSql reads them
View(ars, b) ==
    [b EXCEPT !.columns = Elems(ars, @), !.whereParts = Elems(ars, @)]

Cloned == 2

\* the column and the WHERE clause given to b, and those given to its clone
ColumnOf(t) == IF t = Outer THEN <<"a">> ELSE <<"x">>
WhereOf(t) == IF t = Outer THEN <<"b", "?">> ELSE <<"c", "?">>

\* t.Columns(column)
CloneColumns(t) ==
    /\ builders[t].columns.len < MaxCap
    /\ \E r \in append(arrays, builders[t].columns, newPart(String(ColumnOf(t)), <<>>),
                        <<t, "columns", builders[t].columns.len>>) :
          /\ arrays' = r.arrays
          /\ builders' = [builders EXCEPT ![t].columns = r.slice]
    /\ out' = NoRes
    /\ UNCHANGED <<frag, prev>>

\* t.Where(pred, t)
CloneWhere(t) ==
    /\ builders[t].whereParts.len < MaxCap
    /\ \E r \in append(arrays, builders[t].whereParts,
                        newWherePart(String(WhereOf(t)), <<Scalar(t)>>),
                        <<t, "whereParts", builders[t].whereParts.len>>) :
          /\ arrays' = r.arrays
          /\ builders' = [builders EXCEPT ![t].whereParts = r.slice]
    /\ out' = NoRes
    /\ UNCHANGED <<frag, prev>>

\* c := b.Clone()
CallClone ==
    /\ Len(builders) = 1
    /\ builders' = Append(builders, Clone(builders[Outer]))
    /\ out' = NoRes
    /\ UNCHANGED <<frag, prev, arrays>>

\* t.ToSql()
CloneToSql(t) ==
    /\ out = NoRes
    /\ out' \in SelectBuilder_ToSql(View(arrays, builders[t]))
    /\ UNCHANGED <<frag, prev, builders, arrays>>

CallColumnsOfBuilder == \E t \in DOMAIN builders : CloneColumns(t)
CallWhereOfBuilder == \E t \in DOMAIN builders : CloneWhere(t)
CallToSqlOfBuilder == \E t \in DOMAIN builders : CloneToSql(t)

InitClone ==
    /\ frag = NoFrag
    /\ out = NoRes
    /\ prev = NoRes
    /\ builders = <<NewSliceBuilder>>
    /\ arrays = NoArrays

NextClone ==
    \/ CallColumnsOfBuilder
    \/ CallWhereOfBuilder
    \/ CallClone
    \/ CallToSqlOfBuilder

SpecClone == InitClone /\ [][NextClone]_vars

----------------------------------------------------------------------------
(* Properties of Clone (SpecClone). *)

\* the renderings of the builder t of bs with the backing arrays ars
RenderingsOf(bs, ars, t) == SelectBuilder_ToSql(View(ars, bs[t]))

\* C16: after c := b.Clone(), an accumulation call on either of b and c
\* leaves the text and the arguments the other renders unchanged.
C16_CloneIsolation ==
    [][(Len(builders) = 2 /\ Len(builders') = 2) =>
          \A t \in {Outer, Cloned} :
             builders'[t] # builders[t] =>
                RenderingsOf(builders', arrays', 3 - t)
                   = RenderingsOf(builders, arrays, 3 - t)]_vars

\* an accumulation call on one of b and c whose slice has no room left leaves
\* what the other renders unchanged
C16_IsolationOfFullSlices ==
    [][(Len(builders) = 2 /\ Len(builders') = 2 /\ DOMAIN arrays' # DOMAIN arrays) =>
          \A t \in {Outer, Cloned} :
             builders'[t] # builders[t] =>
                RenderingsOf(builders', arrays', 3 - t)
                   = RenderingsOf(builders, arrays, 3 - t)]_vars

====
